---- MODULE Spec2Model ----
(***************************************************************************)
(* TikzJax rendering pipeline (src/src/index.js): processTikzScripts, its  *)
(* two inner coroutines loadCachedOrSetupLoader and process, the module    *)
(* level processQueue / texWorker, the IndexedDB store behind getItem and  *)
(* setItem, and the worker side texify post-processing.                    *)
(*                                                                         *)
(* One invocation of processTikzScripts is a "batch".  Every await of the  *)
(* source is a suspension point: a batch sits at a pc value between two    *)
(* awaits and each action runs the synchronous code from the completion of *)
(* one await up to the next one.                                           *)
(***************************************************************************)
EXTENDS Naturals, Sequences, FiniteSets, TLC

\* ---------------------------------------------------------------- bounds
MaxBatches == 3     \* invocations of processTikzScripts
NumElts == 3        \* script elements handed to the pipeline in total
MaxBatchLen == 2    \* elements in the scripts array of one invocation
MaxPages == 2       \* pages the engine emits for one element

Batches == 1..MaxBatches
Elts == 1..NumElts

\* ---------------------------------------------------------------- inputs
\* A dataset is the element's data-* attributes in attribute order, as
\* <<key, value>> pairs; the text is the element's first child node.
Datasets == { <<>>, << <<"disableCache", "true">> >> }
Texts == { "a", "b" }

\* The (dataset, text) pairs the page's elements are drawn from.
Inputs == { <<ds, t>> \in Datasets \X Texts : ds = <<>> \/ t = "a" }

NoValue == "undefined"

\* elt.dataset[key]: the value of the first pair with that key, or undefined.
RECURSIVE Lookup(_, _)
Lookup(ds, key) ==
    IF ds = <<>> THEN NoValue
    ELSE IF Head(ds)[1] = key THEN Head(ds)[2]
    ELSE Lookup(Tail(ds), key)

\* JavaScript truthiness of a dataset value: undefined and "" are falsy.
Truthy(v) == v # NoValue /\ v # ""

\* createHash(JSON.stringify(elt.dataset) + text): JSON.stringify lists the
\* keys in the order the dataset holds them; SHA-1 is taken as injective on
\* the serialized input, so the digest is represented by that input.
createHash(ds, text) == <<ds, text>>

Hashes == { createHash(ds, t) : ds \in Datasets, t \in Texts }

\* ---------------------------------------------------------------- markup
\* html is a sequence of <svg> containers; a container is the sequence of
\* the page bodies it holds.  The empty sequence is the empty string.
Page(text, n) == <<text, n>>

\* What dvi2html writes for a text that typesets to n pages: one container
\* per page, none at all for n = 0.
RawOutput(text, n) == [i \in 1..n |-> <<Page(text, i)>>]

RECURSIVE JoinAll(_)
JoinAll(html) == IF html = <<>> THEN <<>> ELSE Head(html) \o JoinAll(Tail(html))

\* composeToSVG: '' when no <svg> matches, otherwise the first container's
\* open tag around the joined contents of all containers.
composeToSVG(html) == IF Len(html) = 0 THEN <<>> ELSE << JoinAll(html) >>

NoEntry == [kind |-> "none", hash |-> <<>>, html |-> <<>>, by |-> 0]
PriorEntry(h) == [kind |-> "svg", hash |-> h, html |-> <<>>, by |-> 0]
Rendered(h, html, e) == [kind |-> "svg", hash |-> h, html |-> html, by |-> e]

\* A node of the page standing where the script element was.
Script == [kind |-> "script", markup |-> NoEntry]
Loader == [kind |-> "loader", markup |-> NoEntry]
Broken == [kind |-> "broken", markup |-> NoEntry]
Svg(m) == [kind |-> "svg", markup |-> m]

\* err.toString() of what texWorker.texify rejects with.
EngineErrors == { "fail to generate dvi", "not loaded" }
ErrToString(err) ==
    IF err = "fail to generate dvi" THEN "Error: fail to generate dvi"
    ELSE "TypeError: not loaded"

Ev(type, status, message) == [type |-> type, status |-> status, message |-> message]
E0(type) == Ev(type, "", "")
LoadFinished == E0("tikzjax-load-finished")
\* What the store or the engine answered a call with, as the log records it.
Got(entry) == Ev("getItem-settled", IF entry.kind = "svg" THEN "entry" ELSE "absent", "")
GetFailed == Ev("getItem-settled", "rejected", "")
TexifyRejected(err) == Ev("texify-settled", "rejected", err)
TexifyReturned(html) == Ev("texify-settled", IF html = <<>> THEN "no-svg" ELSE "svg", "")
PutSettled(ok) == Ev("setItem-settled", IF ok THEN "stored" ELSE "rejected", "")
RenderFinished(status, message) == Ev("tikzjax-render-finished", status, message)

\* ----------------------------------------------------------------- state
VARIABLES
    texWorker,      \* "pending" | "ready" | "noload" (load failed, caught) | "rejected" (spawn failed)
    db,             \* the svgImages object store: hash -> entry
    processQueue,   \* the completion promises of the batches, named by batch
    workerWaiters,  \* batches suspended in `await texWorker`, in arrival order
    invoked,        \* number of processTikzScripts invocations so far
    handed,         \* number of script elements handed to the pipeline so far
    scripts,        \* per batch: the scripts argument
    texQueue,       \* per batch: the closure's texQueue
    pc,             \* per batch: the await the async body is suspended in
    idx,            \* per batch: position of the for loop it is in
    waitOn,         \* per batch: the promise awaited at line 171 (0: none)
    resolved,       \* per batch: currentProcessPromise is resolved
    elt,            \* per element: dataset and text
    sourceHash,     \* per element: elt.sourceHash (<<>> before it is set)
    dom,            \* per element: the node standing in the page for it
    events,         \* per element: what happened to it, in order
    joined,         \* history: batches in the order they pushed to processQueue
    finished,       \* history: batches in the order they shifted and resolved
    run             \* the worker-side call or function evaluation examined on its
                    \* own (<<>> while the page-side pipeline is examined)

vars == <<texWorker, db, processQueue, workerWaiters, invoked, handed,
          scripts, texQueue, pc, idx, waitOn, resolved, elt, sourceHash, dom,
          events, joined, finished, run>>

\* Texts whose hashes may already be stored when the page loads.
PriorTexts == { "a" }

Init ==
    /\ texWorker = "pending"
    /\ \E S \in SUBSET { createHash(ds, t) : ds \in Datasets, t \in PriorTexts } :
          db = [h \in Hashes |-> IF h \in S THEN PriorEntry(h) ELSE NoEntry]
    /\ processQueue = <<>>
    /\ workerWaiters = <<>>
    /\ invoked = 0
    /\ handed = 0
    /\ scripts = [b \in Batches |-> <<>>]
    /\ texQueue = [b \in Batches |-> <<>>]
    /\ pc = [b \in Batches |-> "idle"]
    /\ idx = [b \in Batches |-> 0]
    /\ waitOn = [b \in Batches |-> 0]
    /\ resolved = [b \in Batches |-> FALSE]
    /\ elt = [e \in Elts |-> [dataset |-> <<>>, text |-> ""]]
    /\ sourceHash = [e \in Elts |-> <<>>]
    /\ dom = [e \in Elts |-> Script]
    /\ events = [e \in Elts |-> <<>>]
    /\ joined = <<>>
    /\ finished = <<>>
    /\ run = <<>>

\* ------------------------------------------------------- initializeWorker
\* spawn and tex.load settle: load's failure is caught and tex is returned
\* all the same; a failing spawn rejects the texWorker promise.
initializeWorker(outcome) ==
    /\ texWorker = "pending"
    /\ texWorker' = outcome
    /\ UNCHANGED <<run, db, processQueue, workerWaiters, invoked, handed,
                   scripts, texQueue, pc, idx, waitOn, resolved, elt,
                   sourceHash, dom, events, joined, finished>>

\* ------------------------------------------------------ processTikzScripts
\* A variant that consults the store whatever the dataset says.
UsesCacheAlways(ds) == TRUE

\* `elt.dataset.disableCache ? undefined : await getItem(elt.sourceHash)`:
\* the store is consulted unless the flag is truthy (lines 39, 83, 142).
UsesCache(ds) == ~Truthy(Lookup(ds, "disableCache"))

\* A variant of lines 41-47 that also raises render-finished, as lines 85-94 do.
HitAtDiscoveryLoud(evs, e) ==
    [evs EXCEPT ![e] = @ \o <<E0("replaced"), LoadFinished,
                              Ev("tikzjax-render-finished", "success", "")>>]

\* A variant of lines 41-47 that shows the loader before the cached markup.
HitAtDiscoveryWithLoader(evs, e) ==
    [evs EXCEPT ![e] = @ \o <<E0("placeholder"), E0("replaced"),
                              Ev("tikzjax-load-finished", "", "")>>]

\* Lines 41-47: the cached markup replaces the element, load-finished fires.
HitAtDiscovery(evs, e) == [evs EXCEPT ![e] = @ \o <<E0("replaced"), LoadFinished>>]

\* Lines 49-74: the element is queued and the loader replaces it.
MissAtDiscovery(evs, e) == [evs EXCEPT ![e] = Append(@, E0("placeholder"))]

\* Lines 85-94: the re-check found an entry.
HitAtTurn(evs, e) ==
    [evs EXCEPT ![e] = @ \o <<E0("replaced"), LoadFinished, RenderFinished("success", "")>>]

\* A variant of lines 100-107 that raises load-finished on the icon too.
EngineFailedLoud(evs, e, err) ==
    [evs EXCEPT ![e] = @ \o <<E0("broken"), LoadFinished,
                              Ev("tikzjax-render-finished", "error", ErrToString(err))>>]

\* Lines 100-107: texify rejected with err.
EngineFailed(evs, e, err) ==
    [evs EXCEPT ![e] = @ \o <<E0("broken"), RenderFinished("error", ErrToString(err))>>]

\* A variant of lines 150-154 with the two dispatches in the other order.
RenderDoneSwapped(evs, e) ==
    [evs EXCEPT ![e] = @ \o <<Ev("tikzjax-render-finished", "success", ""), LoadFinished>>]

\* Lines 150-154, after the (possibly skipped, possibly failed) write.
RenderDone(evs, e) ==
    [evs EXCEPT ![e] = @ \o <<LoadFinished, RenderFinished("success", "")>>]

\* Variants of line 171 that await nothing, or the promise at the head.
PredecessorNone(q) == 0
PredecessorHead(q) == IF Len(q) > 1 THEN q[1] ELSE 0

\* Line 171: `if (processQueue.length > 1) await processQueue[processQueue.length - 2]`,
\* on the queue as it is after the push; 0 when nothing is awaited.
Predecessor(q) == IF Len(q) > 1 THEN q[Len(q) - 1] ELSE 0

\* A variant of line 178 with Array.prototype.pop: drops the last entry.
Pop(q) == IF q = <<>> THEN <<>> ELSE SubSeq(q, 1, Len(q) - 1)

\* Array.prototype.shift: drops the first entry, does nothing on an empty array.
Shift(q) == IF q = <<>> THEN <<>> ELSE Tail(q)

\* A variant of lines 161-168 that leaves the loop for the worker as soon as
\* an element was queued.
AfterLoadEager(b, tq) ==
    LET last == idx[b] >= Len(scripts[b]) \/ tq # <<>>
        toWorker == last /\ tq # <<>> IN
    /\ texQueue' = [texQueue EXCEPT ![b] = tq]
    /\ idx' = [idx EXCEPT ![b] = IF last THEN 0 ELSE @ + 1]
    /\ pc' = [pc EXCEPT ![b] =
                 IF ~last THEN "hash" ELSE IF toWorker THEN "awaitWorker" ELSE "done"]
    /\ resolved' = [resolved EXCEPT ![b] = last /\ ~toWorker]
    /\ workerWaiters' = IF toWorker THEN Append(workerWaiters, b) ELSE workerWaiters

\* The for loop of line 161 starts on its next element, or the body goes on
\* to lines 166-168 when the scripts are exhausted.  tq is texQueue as the
\* element just handled left it.
AfterLoad(b, tq) ==
    LET last == idx[b] >= Len(scripts[b])
        toWorker == last /\ tq # <<>> IN
    /\ texQueue' = [texQueue EXCEPT ![b] = tq]
    /\ idx' = [idx EXCEPT ![b] = IF last THEN 0 ELSE @ + 1]
    /\ pc' = [pc EXCEPT ![b] =
                 IF ~last THEN "hash" ELSE IF toWorker THEN "awaitWorker" ELSE "done"]
    /\ resolved' = [resolved EXCEPT ![b] = last /\ ~toWorker]
    /\ workerWaiters' = IF toWorker THEN Append(workerWaiters, b) ELSE workerWaiters

\* processTikzScripts(scripts) is called (the initial scan, or one mutation
\* callback) with k elements not handed in before; the body runs up to the
\* first await: the digest of the first element, or the end when k = 0.
Invoke(b, k, inp) ==
    /\ b = invoked + 1
    /\ pc[b] = "idle"
    /\ handed + k <= NumElts
    /\ invoked' = b
    /\ handed' = handed + k
    /\ scripts' = [scripts EXCEPT ![b] = [i \in 1..k |-> handed + i]]
    /\ elt' = [e \in Elts |->
                 IF e > handed /\ e <= handed + k
                 THEN [dataset |-> inp[e - handed][1], text |-> inp[e - handed][2]]
                 ELSE elt[e]]
    /\ pc' = [pc EXCEPT ![b] = IF k = 0 THEN "done" ELSE "hash"]
    /\ idx' = [idx EXCEPT ![b] = IF k = 0 THEN 0 ELSE 1]
    /\ resolved' = [resolved EXCEPT ![b] = (k = 0)]
    /\ UNCHANGED <<run, texWorker, db, processQueue, workerWaiters, texQueue,
                   waitOn, sourceHash, dom, events, joined, finished>>

\* Line 37 resumes with the digest.  With caching disabled no getItem is
\* awaited and lines 48-75 run at once; otherwise getItem is issued.
HashDone(b) ==
    /\ pc[b] = "hash"
    /\ LET e == scripts[b][idx[b]]
           h == createHash(elt[e].dataset, elt[e].text) IN
       /\ sourceHash' = [sourceHash EXCEPT ![e] = h]
       /\ IF UsesCache(elt[e].dataset)
          THEN /\ pc' = [pc EXCEPT ![b] = "get"]
               /\ events' = [events EXCEPT ![e] = Append(@, E0("getItem"))]
               /\ UNCHANGED <<dom, texQueue, idx, resolved, workerWaiters>>
          ELSE /\ dom' = [dom EXCEPT ![e] = Loader]
               /\ events' = MissAtDiscovery(events, e)
               /\ AfterLoad(b, Append(texQueue[b], e))
    /\ UNCHANGED <<run, texWorker, db, processQueue, invoked, handed,
                   scripts, waitOn, elt, joined, finished>>

\* Line 39 resumes with what the store holds for the hash.
GetDone(b) ==
    /\ pc[b] = "get"
    /\ LET e == scripts[b][idx[b]]
           savedSVG == db[sourceHash[e]]
           evs == [events EXCEPT ![e] = Append(@, Got(savedSVG))] IN
       IF savedSVG.kind = "svg"
       THEN /\ dom' = [dom EXCEPT ![e] = Svg(savedSVG)]
            /\ events' = HitAtDiscovery(evs, e)
            /\ AfterLoad(b, texQueue[b])
       ELSE /\ dom' = [dom EXCEPT ![e] = Loader]
            /\ events' = MissAtDiscovery(evs, e)
            /\ AfterLoad(b, Append(texQueue[b], e))
    /\ UNCHANGED <<run, texWorker, db, processQueue, invoked, handed,
                   scripts, waitOn, elt, sourceHash, joined, finished>>

\* getItem rejects (the store cannot be opened, the read fails): nothing
\* catches it, the async body of lines 157-181 ends rejected.
GetThrows(b) ==
    /\ pc[b] \in {"get", "procGet"}
    /\ pc' = [pc EXCEPT ![b] = "crashed"]
    /\ LET e == IF pc[b] = "get" THEN scripts[b][idx[b]] ELSE texQueue[b][idx[b]] IN
       events' = [events EXCEPT ![e] = Append(@, GetFailed)]
    /\ UNCHANGED <<run, texWorker, db, processQueue, workerWaiters, invoked,
                   handed, scripts, texQueue, idx, waitOn, resolved, elt,
                   sourceHash, dom, joined, finished>>

\* A variant of lines 79-99 without the re-check of line 83.
BeginPcNoRecheck(e) == "texify"

\* process(elt) up to its first await (lines 79-99): the re-check of the
\* store when caching is on, the engine call otherwise.
BeginPc(e) == IF UsesCache(elt[e].dataset) THEN "procGet" ELSE "texify"
BeginProcess(evs, e) ==
    [evs EXCEPT ![e] = Append(@, IF UsesCache(elt[e].dataset)
                                 THEN E0("getItem") ELSE E0("texify"))]

\* Lines 174-180 with the element at idx done and its events recorded in
\* evs: process runs on the next element of texQueue, or the batch shifts
\* processQueue and resolves its promise.
NextElement(b, evs) ==
    IF idx[b] < Len(texQueue[b])
    THEN LET n == texQueue[b][idx[b] + 1] IN
         /\ events' = BeginProcess(evs, n)
         /\ pc' = [pc EXCEPT ![b] = BeginPc(n)]
         /\ idx' = [idx EXCEPT ![b] = @ + 1]
         /\ UNCHANGED <<processQueue, resolved, finished>>
    ELSE /\ events' = evs
         /\ pc' = [pc EXCEPT ![b] = "done"]
         /\ idx' = idx
         /\ processQueue' = Shift(processQueue)
         /\ resolved' = [resolved EXCEPT ![b] = TRUE]
         /\ finished' = Append(finished, b)

\* Line 168 resumes for the batch that has waited longest: the texWorker
\* promise is settled.  Fulfilled, the batch pushes its promise (line 170)
\* and either awaits its predecessor's or starts on its first element.
\* Rejected, the await throws and the body ends rejected.
WorkerResume(b) ==
    /\ pc[b] = "awaitWorker"
    /\ workerWaiters # <<>> /\ b = Head(workerWaiters)
    /\ texWorker # "pending"
    /\ workerWaiters' = Tail(workerWaiters)
    /\ IF texWorker = "rejected"
       THEN /\ pc' = [pc EXCEPT ![b] = "crashed"]
            /\ UNCHANGED <<processQueue, waitOn, joined, idx, events>>
       ELSE LET q == Append(processQueue, b)
                prev == Predecessor(q) IN
            /\ processQueue' = q
            /\ joined' = Append(joined, b)
            /\ waitOn' = [waitOn EXCEPT ![b] = prev]
            /\ IF prev # 0
               THEN /\ pc' = [pc EXCEPT ![b] = "awaitPrev"]
                    /\ UNCHANGED <<idx, events>>
               ELSE /\ pc' = [pc EXCEPT ![b] = BeginPc(texQueue[b][1])]
                    /\ idx' = [idx EXCEPT ![b] = 1]
                    /\ events' = BeginProcess(events, texQueue[b][1])
    /\ UNCHANGED <<run, texWorker, db, invoked, handed, scripts, texQueue,
                   resolved, elt, sourceHash, dom, finished>>

\* Line 171 resumes: the awaited promise is resolved.
PrevDone(b) ==
    /\ pc[b] = "awaitPrev"
    /\ resolved[waitOn[b]]
    /\ pc' = [pc EXCEPT ![b] = BeginPc(texQueue[b][1])]
    /\ idx' = [idx EXCEPT ![b] = 1]
    /\ events' = BeginProcess(events, texQueue[b][1])
    /\ UNCHANGED <<run, texWorker, db, processQueue, workerWaiters, invoked,
                   handed, scripts, texQueue, waitOn, resolved, elt, sourceHash,
                   dom, joined, finished>>

\* Line 83 resumes with what the store holds now.
ProcGetDone(b) ==
    /\ pc[b] = "procGet"
    /\ LET e == texQueue[b][idx[b]]
           savedSVG == db[sourceHash[e]]
           evs == [events EXCEPT ![e] = Append(@, Got(savedSVG))] IN
       IF savedSVG.kind = "svg"
       THEN /\ dom' = [dom EXCEPT ![e] = Svg(savedSVG)]
            /\ NextElement(b, HitAtTurn(evs, e))
       ELSE /\ dom' = dom
            /\ pc' = [pc EXCEPT ![b] = "texify"]
            /\ events' = [evs EXCEPT ![e] = Append(@, E0("texify"))]
            /\ UNCHANGED <<idx, processQueue, resolved, finished>>
    /\ UNCHANGED <<run, texWorker, db, workerWaiters, invoked, handed,
                   scripts, texQueue, waitOn, elt, sourceHash, joined>>

\* texify rejects (lines 100-107): no dvi was produced, or the engine was
\* never loaded.  The loader becomes the broken-image icon.
TexifyThrows(b, err) ==
    /\ pc[b] = "texify"
    /\ err = "not loaded" <=> texWorker = "noload"
    /\ LET e == texQueue[b][idx[b]]
           evs == [events EXCEPT ![e] = Append(@, TexifyRejected(err))] IN
       /\ dom' = [dom EXCEPT ![e] = Broken]
       /\ NextElement(b, EngineFailed(evs, e, err))
    /\ UNCHANGED <<run, texWorker, db, workerWaiters, invoked, handed,
                   scripts, texQueue, waitOn, elt, sourceHash, joined>>

\* A variant in which texify can run although load failed.
EngineLoadedAnyway(w) == TRUE

\* texify can run to its end only in a worker whose load set code and
\* coredump (lines 627-628): otherwise coredump is undefined at line 678.
EngineLoaded(w) == w = "ready"

\* What texify returns for dvi2html's output (lines 722-726).
Postprocess(raw) == composeToSVG(raw)

\* texify returns html (lines 110-148).  With no <svg> child in the <div>,
\* svg.firstChild.width throws a TypeError that nothing catches.  Otherwise
\* the markup replaces the loader, and the write is issued or skipped.
TexifyReturns(b, pages) ==
    /\ pc[b] = "texify"
    /\ EngineLoaded(texWorker)
    /\ LET e == texQueue[b][idx[b]]
           raw == RawOutput(elt[e].text, pages)
           html == Postprocess(raw)
           svg == Rendered(sourceHash[e], html, e)
           evs == [events EXCEPT ![e] = Append(@, TexifyReturned(html))] IN
       IF html = <<>>
       THEN /\ pc' = [pc EXCEPT ![b] = "crashed"]
            /\ events' = evs
            /\ UNCHANGED <<dom, idx, processQueue, resolved, finished>>
       ELSE /\ dom' = [dom EXCEPT ![e] = Svg(svg)]
            /\ IF UsesCache(elt[e].dataset)
               THEN /\ pc' = [pc EXCEPT ![b] = "setItem"]
                    /\ events' = [evs EXCEPT ![e] = @ \o <<E0("injected"), E0("setItem")>>]
                    /\ UNCHANGED <<idx, processQueue, resolved, finished>>
               ELSE NextElement(b, RenderDone(
                        [evs EXCEPT ![e] = Append(@, E0("injected"))], e))
    /\ UNCHANGED <<run, texWorker, db, workerWaiters, invoked, handed,
                   scripts, texQueue, waitOn, elt, sourceHash, joined>>

\* A variant of lines 143-154 without the try/catch: a rejected setItem
\* ends the body of lines 157-181.
AfterSetItemNoCatch(b, e, ok, evs) ==
    IF ok THEN NextElement(b, RenderDone(evs, e))
    ELSE /\ pc' = [pc EXCEPT ![b] = "crashed"]
         /\ events' = evs
         /\ UNCHANGED <<idx, processQueue, resolved, finished>>

\* Lines 143-154 once setItem has settled: a rejection is caught and only
\* logged, and either way the two events fire and the loop goes on.
AfterSetItem(b, e, ok, evs) == NextElement(b, RenderDone(evs, e))

\* Line 144 resumes: the put stored svg.outerHTML under the hash, or failed.
SetItemDone(b, ok) ==
    /\ pc[b] = "setItem"
    /\ LET e == texQueue[b][idx[b]] IN
       /\ db' = IF ok THEN [db EXCEPT ![sourceHash[e]] = dom[e].markup] ELSE db
       /\ AfterSetItem(b, e, ok, [events EXCEPT ![e] = Append(@, PutSettled(ok))])
    /\ UNCHANGED <<run, texWorker, workerWaiters, invoked, handed, scripts,
                   texQueue, waitOn, elt, sourceHash, dom, joined>>

Next ==
    \/ \E o \in {"ready", "noload", "rejected"} : initializeWorker(o)
    \/ \E b \in Batches, k \in 0..MaxBatchLen :
          \E inp \in [1..k -> Inputs] : Invoke(b, k, inp)
    \/ \E b \in Batches : HashDone(b)
    \/ \E b \in Batches : GetDone(b)
    \/ \E b \in Batches : GetThrows(b)
    \/ \E b \in Batches : WorkerResume(b)
    \/ \E b \in Batches : PrevDone(b)
    \/ \E b \in Batches : ProcGetDone(b)
    \/ \E b \in Batches, err \in EngineErrors : TexifyThrows(b, err)
    \/ \E b \in Batches, pages \in 0..MaxPages : TexifyReturns(b, pages)
    \/ \E b \in Batches, ok \in BOOLEAN : SetItemDone(b, ok)

Spec == Init /\ [][Next]_vars

\* ================================================================ claims
Range(f) == { f[i] : i \in DOMAIN f }
IsPrefix(s, t) == Len(s) <= Len(t) /\ \A i \in 1..Len(s) : s[i] = t[i]
Has(e, type) == \E i \in 1..Len(events[e]) : events[e][i].type = type
HasSettled(e, type, status) ==
    \E i \in 1..Len(events[e]) : events[e][i].type = type /\ events[e][i].status = status
Count(e, type) == Cardinality({ i \in 1..Len(events[e]) : events[e][i].type = type })
Final(e) == dom[e].kind \in {"svg", "broken"}
RenderedBy(e) == dom[e].kind = "svg" /\ dom[e].markup.by = e

\* The batches with a texify call issued and not yet settled.
InFlight == { b \in Batches : pc[b] = "texify" }

\* C1: at any instant at most one texWorker.texify call is in flight, over
\* all batches and all interleavings of processTikzScripts invocations.
C1_SingleFlight == Cardinality(InFlight) <= 1

\* One batch has a call in flight while another has pushed its promise and
\* waits, and a third is still looking its elements up.
C1_Witness ==
    \E b1, b2, b3 \in Batches :
        pc[b1] = "texify" /\ pc[b2] = "awaitPrev" /\ pc[b3] \in {"hash", "get"}

\* C2: batches finish in the order they pushed onto processQueue, and a
\* batch issues its first texify only when every batch that pushed before
\* it is done: resolved, every element of its texQueue in its final visual,
\* no write pending.
C2_FifoCompletion ==
    /\ IsPrefix(finished, joined)
    /\ \A i \in 1..Len(joined) :
          (\E e \in Range(texQueue[joined[i]]) : Has(e, "texify")) =>
              \A j \in 1..(i - 1) :
                  /\ pc[joined[j]] = "done"
                  /\ resolved[joined[j]]
                  /\ i > Len(finished) => j <= Len(finished)
                  /\ \A e \in Range(texQueue[joined[j]]) : Final(e)

\* Three batches pushed in another order than they were invoked in, the first
\* two are done and the third has called the engine.
C2_Witness ==
    /\ Len(joined) = 3 /\ joined[1] # 1
    /\ Len(finished) = 2
    /\ \E e \in Range(texQueue[joined[3]]) : Has(e, "texify")

PosIn(q, e) == CHOOSE i \in 1..Len(q) : q[i] = e
LoadFinishedType == "tikzjax-load-finished"
RenderFinishedType == "tikzjax-render-finished"

\* The batch that queued e has left process(e) normally: it is on a later
\* element of its texQueue, or done.
Past(e) ==
    \E b \in Range(joined) :
        /\ e \in Range(texQueue[b])
        /\ \/ pc[b] = "done"
           \/ pc[b] # "awaitPrev" /\ idx[b] > PosIn(texQueue[b], e)

\* process(n) has been entered: its first call was issued.
Begun(n) == Has(n, "texify") \/ Count(n, "getItem") >= 2

\* The loop of line 174 went on after e: e is behind, and the element
\* queued after e, if any, has been started.
WentOn(e) ==
    /\ Past(e)
    /\ \A b \in Batches :
          e \in Range(texQueue[b]) /\ PosIn(texQueue[b], e) < Len(texQueue[b]) =>
              Begun(texQueue[b][PosIn(texQueue[b], e) + 1])

\* C3 (as claimed): every element that entered a texQueue ends Resolved or
\* Failed whatever its engine call and cache operations answered, and no
\* such answer keeps later elements or batches from running.  As a property
\* of finished runs: a batch body that has ended leaves none of its queued
\* elements on the placeholder, and no batch waits for a promise whose body
\* ended without resolving it.
C3_Claim ==
    texWorker = "ready" =>
        /\ \A b \in Batches :
              pc[b] \in {"done", "crashed"} => \A e \in Range(texQueue[b]) : Final(e)
        /\ \A b \in Batches : pc[b] = "awaitPrev" => pc[waitOn[b]] # "crashed"

\* C4: when texify rejects for an element, the broken-image icon stands in
\* for its placeholder, nothing was written to the store for it, no
\* load-finished was raised for it, exactly one render-finished was raised,
\* with status error and the error's text, and the batch went on.
C4_EngineErrorContained ==
    \A e \in Elts : \A i \in 1..Len(events[e]) :
        events[e][i].type = "texify-settled" /\ events[e][i].status = "rejected" =>
            /\ dom[e] = Broken
            /\ ~Has(e, "setItem") /\ \A h \in Hashes : db[h].by # e
            /\ Count(e, LoadFinishedType) = 0
            /\ Count(e, RenderFinishedType) = 1
            /\ \E j \in 1..Len(events[e]) :
                  /\ j > i
                  /\ events[e][j].type = RenderFinishedType
                  /\ events[e][j].status = "error"
                  /\ events[e][j].message = ErrToString(events[e][i].message)
            /\ WentOn(e)

\* A batch of two whose first element failed in a loaded engine and whose
\* second was rendered.
C4_Witness ==
    \E b \in Batches :
        /\ Len(texQueue[b]) = 2
        /\ \E i \in 1..Len(events[texQueue[b][1]]) :
              events[texQueue[b][1]][i] = TexifyRejected("fail to generate dvi")
        /\ RenderedBy(texQueue[b][2])

\* C5 (as claimed): when texify returns output without an svg container,
\* the element's processing ends without an uncaught exception and the
\* batch goes on to its next element.
C5_Claim ==
    \A e \in Elts : HasSettled(e, "texify-settled", "no-svg") => WentOn(e)

\* C6: an element whose dataset sets disableCache never has getItem or
\* setItem called for it and never changes the store, whatever the store
\* holds; its sourceHash is set all the same once it is discovered.
C6_NoCacheBypass ==
    \A e \in Elts :
        Truthy(Lookup(elt[e].dataset, "disableCache")) =>
            /\ ~Has(e, "getItem") /\ ~Has(e, "getItem-settled")
            /\ ~Has(e, "setItem") /\ ~Has(e, "setItem-settled")
            /\ \A h \in Hashes : db[h].by # e
            /\ ~Has(e, "replaced")
            /\ events[e] # <<>> =>
                  sourceHash[e] = createHash(elt[e].dataset, elt[e].text)

\* A no-cache element was rendered by the engine although the store holds
\* an entry under its hash, and the store still holds that entry.
C6_Witness ==
    \E e \in Elts :
        /\ Truthy(Lookup(elt[e].dataset, "disableCache"))
        /\ RenderedBy(e)
        /\ db[sourceHash[e]] = PriorEntry(sourceHash[e])

\* The element's first lookup, at discovery, found an entry.
DiscoveryHit(e) ==
    /\ Len(events[e]) >= 2
    /\ events[e][2].type = "getItem-settled" /\ events[e][2].status = "entry"

\* C7: an element found in the store at discovery is replaced by the stored
\* markup for its hash: no placeholder, no texQueue, no texify, exactly one
\* load-finished and no render-finished; and the lookup's completion never
\* waits for the queue (it is enabled whenever the lookup is pending).
C7_DiscoveryHit ==
    /\ \A e \in Elts :
          DiscoveryHit(e) =>
              /\ dom[e].kind = "svg" /\ dom[e].markup.kind = "svg"
              /\ dom[e].markup.hash = sourceHash[e] /\ dom[e].markup.by # e
              /\ ~Has(e, "placeholder")
              /\ \A b \in Batches : e \notin Range(texQueue[b])
              /\ ~Has(e, "texify")
              /\ Count(e, LoadFinishedType) = 1
              /\ Count(e, RenderFinishedType) = 0
    /\ \A b \in Batches : pc[b] = "get" => ENABLED GetDone(b)

\* An element was resolved at discovery from the entry an element of
\* another batch wrote, while that batch still has an engine call in flight.
C7_Witness ==
    \E e \in Elts, b \in Batches :
        /\ DiscoveryHit(e)
        /\ pc[b] = "texify"
        /\ e \notin Range(scripts[b])
        /\ dom[e].markup.by \in Range(texQueue[b])

Visible(ev) ==
    ev.type \in {"placeholder", "replaced", "injected", "broken", "setItem-settled",
                 LoadFinishedType, RenderFinishedType}

\* C8: for a cache-enabled element absent from the store at discovery whose
\* texify and setItem succeeded, what happened is, in this order: placeholder
\* shown, rendered markup injected, entry stored, load-finished,
\* render-finished with status success; and the store holds an entry under
\* its hash.
C8_FreshRenderOrder ==
    \A e \in Elts :
        HasSettled(e, "setItem-settled", "stored") =>
            /\ SelectSeq(events[e], Visible) =
                  << E0("placeholder"), E0("injected"), PutSettled(TRUE),
                     E0(LoadFinishedType), Ev(RenderFinishedType, "success", "") >>
            /\ db[sourceHash[e]].kind = "svg"
            /\ RenderedBy(e)

\* An element was rendered and stored, in a store that was empty for it.
C8_Witness ==
    \E e \in Elts :
        /\ HasSettled(e, "setItem-settled", "stored")
        /\ db[sourceHash[e]] = dom[e].markup /\ RenderedBy(e)
        /\ Count(e, RenderFinishedType) = 1

\* process(e) is over: the batch is past e or its body has ended.
Over(e) ==
    \E b \in Range(joined) :
        /\ e \in Range(texQueue[b])
        /\ \/ pc[b] \in {"done", "crashed"}
           \/ pc[b] # "awaitPrev" /\ idx[b] > PosIn(texQueue[b], e)

\* C9 (as claimed): render-finished is raised exactly once for each element
\* texify was called for, and never for an element whose visual came from
\* the store, at discovery or at the re-check of its batch turn.
C9_Claim ==
    \A e \in Elts :
        /\ Has(e, "replaced") => Count(e, RenderFinishedType) = 0
        /\ Has(e, "texify") /\ Over(e) => Count(e, RenderFinishedType) = 1
        /\ Count(e, RenderFinishedType) <= 1

\* C10: when setItem rejects after a render, the element keeps its rendered
\* markup, load-finished and render-finished with status success are raised
\* once each, no error status is reported, and the batch went on.
C10_PutFailureSwallowed ==
    \A e \in Elts :
        HasSettled(e, "setItem-settled", "rejected") =>
            /\ RenderedBy(e)
            /\ Count(e, LoadFinishedType) = 1
            /\ Count(e, RenderFinishedType) = 1
            /\ \E i \in 1..Len(events[e]) :
                  events[e][i] = Ev(RenderFinishedType, "success", "")
            /\ WentOn(e)

\* The write of a batch's first element failed and its second element
\* reached its final visual.
C10_Witness ==
    \E b \in Batches :
        /\ Len(texQueue[b]) = 2
        /\ HasSettled(texQueue[b][1], "setItem-settled", "rejected")
        /\ Final(texQueue[b][2])

\* The batch whose scripts argument holds e.
BatchOf(e) == CHOOSE b \in Batches : e \in Range(scripts[b])

\* C11 (as claimed): a getItem that rejects is taken as a miss: the element
\* has its placeholder, the engine is called for it when its turn comes, and
\* the body of its batch does not end on the rejection, so that the other
\* elements of the batch are handled as usual.
C11_Claim ==
    \A e \in Elts :
        HasSettled(e, "getItem-settled", "rejected") =>
            /\ Has(e, "placeholder")
            /\ pc[BatchOf(e)] # "crashed"
            /\ Over(e) => Final(e)

\* ======================================================== id namespacing
\* Lines 110-120 on their own.  Text is a sequence of one-character strings.
HashLen == 2        \* hex digits of a digest
MaxIdLen == 2       \* characters an engine id has after its pgf prefix
MaxIds == 2         \* id attributes in the engine output for one element

Quote == "\""
IdOpen == <<"i", "d", "=", Quote>>
Pgf == <<"p", "g", "f">>

\* The hex digits digests are written with; engine ids are drawn from the
\* same characters, so that a digest may begin with the text of an id.
HexDigits == { "1", "a" }
Digests == [1..HashLen -> HexDigits]
IdStrings == UNION { [1..n -> HexDigits] : n \in 0..MaxIdLen }

\* What the engine writes for one identified node: the node's id attribute
\* and a reference to it.
PgfNode(s) == IdOpen \o Pgf \o s \o <<Quote, " ", "#">> \o Pgf \o s \o <<" ">>

RECURSIVE PgfMarkup(_)
PgfMarkup(ss) == IF ss = <<>> THEN <<>> ELSE PgfNode(Head(ss)) \o PgfMarkup(Tail(ss))

OccursAt(s, pat, i) ==
    i + Len(pat) - 1 <= Len(s) /\ SubSeq(s, i, i + Len(pat) - 1) = pat

\* String.prototype.replaceAll with a string pattern: the occurrences are
\* found left to right, without overlap, in the text as it was.
RECURSIVE replaceAllFrom(_, _, _, _)
replaceAllFrom(s, pat, rep, i) ==
    IF i > Len(s) THEN <<>>
    ELSE IF OccursAt(s, pat, i) THEN rep \o replaceAllFrom(s, pat, rep, i + Len(pat))
    ELSE <<s[i]>> \o replaceAllFrom(s, pat, rep, i + 1)

replaceAll(s, pat, rep) == replaceAllFrom(s, pat, rep, 1)

WordChars == HexDigits \cup { "i", "d", "p", "g", "f" }

\* html.match(/\bid="pgf[^"]*"/g): the matches in order of occurrence (the
\* empty sequence for null).
RECURSIVE matchFrom(_, _)
matchFrom(s, i) ==
    IF i > Len(s) THEN <<>>
    ELSE LET closing == { j \in (i + Len(IdOpen \o Pgf))..Len(s) : s[j] = Quote } IN
         IF /\ OccursAt(s, IdOpen \o Pgf, i)
            /\ (i = 1 \/ s[i - 1] \notin WordChars)
            /\ closing # {}
         THEN LET j == CHOOSE j \in closing : \A k \in closing : j <= k IN
              <<SubSeq(s, i, j)>> \o matchFrom(s, j + 1)
         ELSE matchFrom(s, i + 1)

match(s) == matchFrom(s, 1)

\* ids.sort((a, b) => b.length - a.length): longest first, equal lengths in
\* the order they had.
InsertByLength(sorted, id) ==
    LET k == Cardinality({ i \in 1..Len(sorted) : Len(sorted[i]) >= Len(id) }) IN
    SubSeq(sorted, 1, k) \o <<id>> \o SubSeq(sorted, k + 1, Len(sorted))

RECURSIVE sortByLength(_)
sortByLength(ids) ==
    IF ids = <<>> THEN <<>>
    ELSE InsertByLength(sortByLength(SubSeq(ids, 1, Len(ids) - 1)), ids[Len(ids)])

\* id.replace(/id="pgf(.*)"/, '$1')
pgfIdString(id) == SubSeq(id, Len(IdOpen \o Pgf) + 1, Len(id) - 1)

\* A variant of line 118 that leaves the digest out of the new id.
NamespacedBare(hash, s) == Pgf \o s

\* `pgf${elt.sourceHash}${pgfIdString}` (line 118)
Namespaced(hash, s) == Pgf \o hash \o s

\* The loop of lines 116-119.
RECURSIVE rewriteIds(_, _, _)
rewriteIds(html, ids, hash) ==
    IF ids = <<>> THEN html
    ELSE LET s == pgfIdString(Head(ids)) IN
         rewriteIds(replaceAll(html, Pgf \o s, Namespaced(hash, s)), Tail(ids), hash)

\* Lines 110-120.
namespaceIds(html, hash) == rewriteIds(html, sortByLength(match(html)), hash)

\* The values of the pgf id attributes in a text.
PgfIds(html) ==
    { SubSeq(m, Len(IdOpen) + 1, Len(m) - 1) : m \in Range(match(html)) }

\* The page-side pipeline at rest, while something else is examined.
AtRest ==
    /\ texWorker = "pending"
    /\ db = [h \in Hashes |-> NoEntry]
    /\ processQueue = <<>>
    /\ workerWaiters = <<>>
    /\ invoked = 0
    /\ handed = 0
    /\ scripts = [b \in Batches |-> <<>>]
    /\ texQueue = [b \in Batches |-> <<>>]
    /\ pc = [b \in Batches |-> "idle"]
    /\ idx = [b \in Batches |-> 0]
    /\ waitOn = [b \in Batches |-> 0]
    /\ resolved = [b \in Batches |-> FALSE]
    /\ elt = [e \in Elts |-> [dataset |-> <<>>, text |-> ""]]
    /\ sourceHash = [e \in Elts |-> <<>>]
    /\ dom = [e \in Elts |-> Script]
    /\ events = [e \in Elts |-> <<>>]
    /\ joined = <<>>
    /\ finished = <<>>

pipeline == <<texWorker, db, processQueue, workerWaiters, invoked, handed,
              scripts, texQueue, pc, idx, waitOn, resolved, elt, sourceHash,
              dom, events, joined, finished>>

\* Two elements of one page, each with its digest and the markup texify
\* returned for it; `raw` keeps what texify returned.
InitIds ==
    /\ AtRest
    /\ \E h \in [1..2 -> Digests], ss \in [1..2 -> UNION { [1..n -> IdStrings] : n \in 0..MaxIds }] :
          run = [hash |-> h,
                 raw |-> [k \in 1..2 |-> PgfMarkup(ss[k])],
                 html |-> [k \in 1..2 |-> PgfMarkup(ss[k])],
                 namespaced |-> [k \in 1..2 |-> FALSE]]

\* Lines 110-120 run for element k.
NamespaceIds(k) ==
    /\ ~run.namespaced[k]
    /\ run' = [run EXCEPT !.html[k] = namespaceIds(@, run.hash[k]),
                          !.namespaced[k] = TRUE]
    /\ UNCHANGED pipeline

NextIds == \E k \in 1..2 : NamespaceIds(k)

SpecIds == InitIds /\ [][NextIds]_vars

\* C12: for two elements with different digests whose engine outputs hold a
\* common pgf id, the pgf ids in the page after lines 110-120 ran for both
\* are disjoint, and each output still holds as many ids as it did.
C12_IdsDisjoint ==
    /\ run.namespaced[1] /\ run.namespaced[2]
    /\ run.hash[1] # run.hash[2]
    /\ PgfIds(run.raw[1]) \cap PgfIds(run.raw[2]) # {}
    => /\ PgfIds(run.html[1]) \cap PgfIds(run.html[2]) = {}
       /\ \A k \in 1..2 : Len(match(run.html[k])) = Len(match(run.raw[k]))

\* Both outputs hold the ids pgf1 and pgf1a, the first digest begins with
\* the text of an id, and both were rewritten.
C12_Witness ==
    /\ run.namespaced[1] /\ run.namespaced[2]
    /\ run.hash[1] # run.hash[2] /\ run.hash[1][1] = "1"
    /\ \A k \in 1..2 :
          PgfIds(run.raw[k]) = { Pgf \o <<"1">>, Pgf \o <<"1", "a">> }

\* The digest of a serialized input as hex text: distinct inputs have
\* distinct digests.
HexDigest ==
    CHOOSE f \in [Hashes -> Digests] : \A g, h \in Hashes : g # h => f[g] # f[h]

\* The engine numbers the nodes it identifies from one in every call (its
\* memory is restored from the same snapshot before each run): here the
\* node of page n is named by n characters.
PageIdString(page) == [i \in 1..page[2] |-> "1"]

\* The text of what texify returned, as far as its pgf nodes go.
RECURSIVE MarkupText(_)
MarkupText(pages) ==
    IF pages = <<>> THEN <<>>
    ELSE PgfNode(PageIdString(Head(pages))) \o MarkupText(Tail(pages))

\* The pgf ids of the markup standing in the page for an element that was
\* rendered: lines 110-120 ran on the returned text with elt.sourceHash.
PageIdsOf(m) == PgfIds(namespaceIds(MarkupText(JoinAll(m.html)), HexDigest[m.hash]))

\* C13 (as claimed): two elements of one batch with caching disabled and the
\* same dataset and text each have their own texify call, and once both are
\* rendered no pgf id of the one is an id of the other.
C13_Claim ==
    \A b \in Batches : \A e1, e2 \in Range(scripts[b]) :
        /\ e1 # e2 /\ elt[e1] = elt[e2]
        /\ ~UsesCache(elt[e1].dataset)
        /\ RenderedBy(e1) /\ RenderedBy(e2)
        => /\ Count(e1, "texify") = 1 /\ Count(e2, "texify") = 1
           /\ PageIdsOf(dom[e1].markup) \cap PageIdsOf(dom[e2].markup) = {}

\* C14 (as claimed): when tex.load failed at initialization, no element that
\* missed the cache ever leaves the placeholder.
C14_Claim ==
    texWorker = "noload" =>
        \A e \in Elts : Has(e, "placeholder") => dom[e] = Loader

\* C14 (amended): when tex.load failed at initialization, no element that
\* missed the cache is ever rendered: texify returns for none, and every
\* element texify was called for ends on the broken-image icon with one
\* render-finished of status error, instead of staying on the placeholder.
C14_LoadFailureFails ==
    texWorker = "noload" =>
        \A e \in Elts :
            Has(e, "placeholder") =>
                /\ dom[e] \in {Loader, Broken}
                /\ ~HasSettled(e, "texify-settled", "svg")
                /\ ~HasSettled(e, "texify-settled", "no-svg")
                /\ Has(e, "texify-settled") =>
                      /\ dom[e] = Broken
                      /\ Count(e, RenderFinishedType) = 1
                      /\ \E i \in 1..Len(events[e]) :
                            events[e][i] = Ev(RenderFinishedType, "error",
                                              ErrToString("not loaded"))
                /\ Has(e, "texify") /\ Over(e) => dom[e] = Broken

\* The load failed; one element that missed the cache is on the broken
\* icon and the next one of its batch is on the placeholder with its engine
\* call issued.
C14_Witness ==
    /\ texWorker = "noload"
    /\ \E b \in Batches :
          /\ Len(texQueue[b]) = 2
          /\ dom[texQueue[b][1]] = Broken
          /\ HasSettled(texQueue[b][1], "getItem-settled", "absent")
          /\ dom[texQueue[b][2]] = Loader /\ pc[b] = "texify"

\* ============================================================ fingerprint
\* Lines 36-37 on their own: the data-* attributes of an element in the
\* order the element lists them (a DOMStringMap holds a key once).
ConfigKeys == { "width", "height" }
ConfigValues == { "75", "100" }
OrderedDatasets ==
    { ds \in UNION { [1..n -> ConfigKeys \X ConfigValues] : n \in 0..Cardinality(ConfigKeys) } :
         \A i, j \in 1..Len(ds) : i # j => ds[i][1] # ds[j][1] }

\* JSON.stringify of a DOMStringMap: the members in the map's own order,
\* which is the order of the attributes.
RECURSIVE members(_)
members(ds) ==
    IF ds = <<>> THEN <<>>
    ELSE <<Head(ds)[1], ":", Head(ds)[2]>>
         \o (IF Tail(ds) = <<>> THEN <<>> ELSE <<",">>) \o members(Tail(ds))

stringify(ds) == <<"{">> \o members(ds) \o <<"}">>

\* createHash(JSON.stringify(elt.dataset) + text), the digest represented
\* by the serialized input it is taken of.
fingerprint(ds, text) == stringify(ds) \o <<text>>

InitHash ==
    /\ AtRest
    /\ \E c \in [1..2 -> OrderedDatasets \X Texts] :
          run = [elts |-> [k \in 1..2 |-> [dataset |-> c[k][1], text |-> c[k][2]]],
                 sourceHash |-> [k \in 1..2 |-> <<>>]]

\* Line 37 for element k.
Fingerprint(k) ==
    /\ run.sourceHash[k] = <<>>
    /\ run' = [run EXCEPT !.sourceHash[k] =
                              fingerprint(run.elts[k].dataset, run.elts[k].text)]
    /\ UNCHANGED pipeline

NextHash == \E k \in 1..2 : Fingerprint(k)

SpecHash == InitHash /\ [][NextHash]_vars

\* C15 (as claimed): the fingerprint is a function of the configuration map
\* and the text alone: two elements with the same keys and values, listed
\* in whatever order, and the same text have the same fingerprint.
C15_Claim ==
    /\ run.sourceHash[1] # <<>> /\ run.sourceHash[2] # <<>>
    /\ Range(run.elts[1].dataset) = Range(run.elts[2].dataset)
    /\ run.elts[1].text = run.elts[2].text
    => run.sourceHash[1] = run.sourceHash[2]

\* ====================================================== character markers
\* getUnicode, the marker texify declares for a character the fonts lack,
\* the entities the engine output holds for the typeset marker, and
\* replaceNotSupportedCharMarkers, on their own.
Latin1Max == 255        \* `code > 255` in findNotSupportedChars
PuaBase == 61440        \* &#xf000;
ByteMask == 256         \* `code & 0xFF`
PadLen == 4             \* padStart(4, '0') and the {4} of the marker pattern

HexChars == <<"0", "1", "2", "3", "4", "5", "6", "7", "8", "9",
              "A", "B", "C", "D", "E", "F">>

\* The code points a page's text is drawn from: Latin-1, the basic plane
\* (with and without leading zeros in hex) and the planes above it.
CodePoints == { 65, 255, 256, 731, 4095, 4096, 20013, 43981, 65535,
                65536, 128512, 1114111 }

\* code.toString(16).toUpperCase()
RECURSIVE toHex(_)
toHex(n) ==
    IF n < 16 THEN <<HexChars[n + 1]>>
    ELSE toHex(n \div 16) \o <<HexChars[(n % 16) + 1]>>

padStart(s) == [i \in 1..(PadLen - Len(s)) |-> "0"] \o s

\* Lines 282-285.
getUnicode(code) == <<"U", "+">> \o padStart(toHex(code))

\* `[${getUnicode(char)}]` of the \newunicodechar declaration (line 366).
Marker(code) == <<"[">> \o getUnicode(code) \o <<"]">>

\* The character code of a character of a marker.
CharCode(c) ==
    CASE c = "[" -> 91 [] c = "]" -> 93 [] c = "U" -> 85 [] c = "+" -> 43
      [] OTHER -> LET d == CHOOSE d \in 1..16 : HexChars[d] = c IN
                  IF d <= 10 THEN 47 + d ELSE 54 + d

\* Tokens of the engine's markup: a numeric character reference, other
\* text, or (after the rewrite) a character.
Entity(n) == [kind |-> "entity", code |-> n]
Other == [kind |-> "text", code |-> 0]
Char(n) == [kind |-> "char", code |-> n]

\* What the output holds for a typeset marker: each of its characters as
\* a reference into the private use area, with other markup after the
\* gap-th of them when the marker came out split (gap = 0: in one piece).
Typeset(text, gap) ==
    LET refs == [i \in 1..Len(text) |-> Entity(PuaBase + CharCode(text[i]))] IN
    IF gap = 0 THEN refs
    ELSE SubSeq(refs, 1, gap) \o <<Other>> \o SubSeq(refs, gap + 1, Len(refs))

\* &#xf[0-9a-f]{3}; (what anyNotPUA refuses) and &#xf0[0-9a-f]{2};
IsPua(t) == t.kind = "entity" /\ t.code >= PuaBase /\ t.code < PuaBase + 4096
IsPua0(t) == t.kind = "entity" /\ t.code >= PuaBase /\ t.code < PuaBase + 256

\* The positions from i on of the references anyNotPUA cannot pass, in order.
PuaFrom(s, i) == SelectSeq([k \in 1..(Len(s) - i + 1) |-> i + k - 1],
                           LAMBDA j : IsPua(s[j]))

\* The marker pattern at position i: the end of the match, 0 for none.
\* Between the references it asks for, the pattern passes over anything
\* but a reference of the private use area, so the next eight of those
\* must be [ U + and four &#xf0..; and ].
MatchEnd(s, i) ==
    LET p == PuaFrom(s, i) IN
    IF /\ Len(p) >= PadLen + 4
       /\ p[1] = i
       /\ s[p[1]] = Entity(PuaBase + 91)
       /\ s[p[2]] = Entity(PuaBase + 85)
       /\ s[p[3]] = Entity(PuaBase + 43)
       /\ \A k \in 4..(PadLen + 3) : IsPua0(s[p[k]])
       /\ s[p[PadLen + 4]] = Entity(PuaBase + 93)
    THEN p[PadLen + 4] ELSE 0

\* String.fromCharCode(code & 0xFF).toUpperCase() for a hex digit; "?"
\* stands for any other character.
ByteChar(b) ==
    IF b >= 48 /\ b <= 57 THEN HexChars[b - 47]
    ELSE IF b >= 65 /\ b <= 70 THEN HexChars[b - 54]
    ELSE IF b >= 97 /\ b <= 102 THEN HexChars[b - 86]
    ELSE "?"

\* parseInt(hex, 16) of the leading hex digits of a text.
RECURSIVE parseHex(_, _)
parseHex(s, acc) ==
    IF s = <<>> \/ Head(s) = "?" THEN acc
    ELSE parseHex(Tail(s), 16 * acc + (CHOOSE d \in 1..16 : HexChars[d] = Head(s)) - 1)

\* Lines 287-296 on 'U+' and the digits.
fromUnicode(digits) == Char(parseHex(digits, 0))

\* The callback of lines 326-338 on one match.
Replacement(m) ==
    LET entities == SelectSeq(m, IsPua0) IN
    IF Len(entities) # 8 THEN m
    ELSE <<fromUnicode([k \in 1..4 |-> ByteChar(entities[k + 3].code % ByteMask)])>>

\* Lines 309-340: every match of the pattern, left to right, is replaced.
RECURSIVE replaceFrom(_, _)
replaceFrom(s, i) ==
    IF i > Len(s) THEN <<>>
    ELSE IF MatchEnd(s, i) # 0
         THEN Replacement(SubSeq(s, i, MatchEnd(s, i))) \o replaceFrom(s, MatchEnd(s, i) + 1)
         ELSE <<s[i]>> \o replaceFrom(s, i + 1)

replaceNotSupportedCharMarkers(s) == replaceFrom(s, 1)

InitMarker ==
    /\ AtRest
    /\ \E c \in CodePoints : run = [stage |-> "char", code |-> c, text |-> <<>>, html |-> <<>>]

\* Lines 353 and 363-368: a character above Latin-1 gets its marker.
DeclareMarker ==
    /\ run.stage = "char" /\ run.code > Latin1Max
    /\ run' = [run EXCEPT !.stage = "declared", !.text = Marker(run.code)]
    /\ UNCHANGED pipeline

\* Lines 385-421: the engine typesets the marker, dvi2html writes it out.
TypesetMarker(gap) ==
    /\ run.stage = "declared" /\ gap <= Len(run.text) - 1
    /\ run' = [run EXCEPT !.stage = "typeset", !.html = Typeset(run.text, gap)]
    /\ UNCHANGED pipeline

\* Line 423.
ReplaceMarkers ==
    /\ run.stage = "typeset"
    /\ run' = [run EXCEPT !.stage = "replaced",
                          !.html = replaceNotSupportedCharMarkers(run.html)]
    /\ UNCHANGED pipeline

NextMarker ==
    \/ DeclareMarker
    \/ \E gap \in 0..(PadLen + 5) : TypesetMarker(gap)
    \/ ReplaceMarkers

SpecMarker == InitMarker /\ [][NextMarker]_vars

\* C16 (as claimed): for every code point above 255, those of more than
\* four hex digits included, the marker made with getUnicode comes out of
\* replaceNotSupportedCharMarkers as exactly that character.
C16_Claim ==
    run.stage = "replaced" => run.html = <<Char(run.code)>>

\* The same for the code points of at most four hex digits.
BasicPlaneRoundTrip ==
    run.stage = "replaced" /\ run.code < 65536 => run.html = <<Char(run.code)>>

\* The re-check of line 83 has answered for e.
Rechecked(e) ==
    Count(e, "getItem-settled") = 2 /\ ~HasSettled(e, "getItem-settled", "rejected")

\* C17: of two cache-enabled elements of one batch with the same hash, both
\* queued, when the first was rendered and its entry stored, texify is never
\* called for the second, and as soon as its re-check has answered the
\* second stands in the page with the markup the first one stored.
C17_SameBatchReuse ==
    \A b \in Batches : \A i, j \in 1..Len(texQueue[b]) :
        LET e1 == texQueue[b][i]
            e2 == texQueue[b][j] IN
        /\ i < j
        /\ sourceHash[e1] = sourceHash[e2] /\ UsesCache(elt[e1].dataset)
        /\ RenderedBy(e1) /\ HasSettled(e1, "setItem-settled", "stored")
        => /\ ~Has(e2, "texify") /\ ~Has(e2, "texify-settled")
           /\ Rechecked(e2) =>
                 /\ events[e2][Len(events[e2]) - 3] = Got(db[sourceHash[e2]])
                 /\ Has(e2, "replaced")
                 /\ dom[e2] = Svg(dom[e1].markup)
                 /\ db[sourceHash[e2]] = dom[e1].markup

\* Both elements of a batch missed at discovery; the first was rendered and
\* stored, the second was resolved from that entry at its turn.
C17_Witness ==
    \E b \in Batches :
        /\ Len(texQueue[b]) = 2
        /\ sourceHash[texQueue[b][1]] = sourceHash[texQueue[b][2]]
        /\ HasSettled(texQueue[b][1], "setItem-settled", "stored")
        /\ RenderedBy(texQueue[b][1])
        /\ Rechecked(texQueue[b][2])
        /\ dom[texQueue[b][2]].kind = "svg" /\ dom[texQueue[b][2]].markup.by = texQueue[b][1]

\* e has been through loadCachedOrSetupLoader: it stands in the page with
\* the cached markup or with its placeholder (or what followed it).
Discovered(e) == dom[e] # Script

\* C18: within a batch the elements are looked up one after the other in
\* the order of the scripts argument, so that discovery hits are resolved in
\* that order; the texQueue holds the others in the same order; when the
\* batch's first texify is issued every element of the batch has been
\* looked up and every discovery hit is resolved; and process is started
\* for a queued element only when every element queued before it is in its
\* final visual.
C18_BatchOrder ==
    \A b \in Batches :
        LET s == scripts[b]
            q == texQueue[b] IN
        /\ \A i, j \in 1..Len(s) :
              i < j /\ events[s[j]] # <<>> => Discovered(s[i])
        /\ q = SelectSeq(s, LAMBDA e : Has(e, "placeholder"))
        /\ (\E e \in Range(s) : Begun(e)) =>
              \A e \in Range(s) :
                  /\ Discovered(e)
                  /\ e \notin Range(q) => DiscoveryHit(e) /\ dom[e].kind = "svg"
        /\ \A i, j \in 1..Len(q) :
              i < j /\ Begun(q[j]) => Final(q[i]) /\ Past(q[i])

\* A batch whose first element was resolved at discovery, before the engine
\* rendered its second; the entry it was resolved from was written by the
\* element of an earlier batch.
C18_Witness ==
    \E b \in Batches :
        /\ Len(scripts[b]) = 2 /\ Len(texQueue[b]) = 1
        /\ DiscoveryHit(scripts[b][1]) /\ RenderedBy(scripts[b][2])
        /\ dom[scripts[b][1]].markup.by \in Elts

\* The states of an element: Pending (the script element is in the page),
\* Loading (its placeholder is), Resolved (markup is), Failed (the icon is).
Pending(e) == dom[e] = Script
Loading(e) == dom[e] = Loader
Resolved(e) == dom[e].kind = "svg"
Failed(e) == dom[e] = Broken

\* C19: an element changes state only from Pending to Resolved, by a hit at
\* discovery, from Pending to Loading, by a discovery without a hit, and
\* from Loading to Resolved or Failed; the placeholder is shown for no
\* element that hit at discovery; Resolved and Failed are never left; and
\* an element is Resolved or Failed only with its sourceHash set.
C19_Lifecycle ==
    [][\A e \in Elts :
          /\ dom'[e] # dom[e] =>
                \/ Pending(e) /\ Resolved(e)' /\ DiscoveryHit(e)' /\ ~DiscoveryHit(e)
                \/ Pending(e) /\ Loading(e)' /\ ~DiscoveryHit(e)'
                      /\ events'[e][Len(events'[e])] = E0("placeholder")
                \/ Loading(e) /\ (Resolved(e)' \/ Failed(e)')
          /\ Has(e, "placeholder")' => ~DiscoveryHit(e)' /\ ~Pending(e)'
          /\ Resolved(e) \/ Failed(e) => dom'[e] = dom[e]
          /\ Resolved(e)' \/ Failed(e)' => sourceHash'[e] # <<>>
          /\ sourceHash[e] # <<>> => sourceHash'[e] = sourceHash[e]
      ]_vars

\* One element was resolved at discovery, one went from its placeholder to
\* rendered markup and one from its placeholder to the icon.
C19_Witness ==
    \E e1, e2, e3 \in Elts :
        /\ DiscoveryHit(e1) /\ Resolved(e1)
        /\ Has(e2, "placeholder") /\ Resolved(e2)
        /\ Has(e3, "placeholder") /\ Failed(e3)

\* ================================================================ texify
\* The worker's texify (lines 630-726) on its own, as far as the engine's
\* virtual filesystem goes.  The filesystem is the set of the names of its
\* files; the page calls texify one call at a time.
MaxCalls == 3       \* texify calls in one page load

EngineFiles == { "input.log", "input.dvi", "input.aux" }

\* library.writeFileSync(name, ...) and library.deleteEverything()
writeFileSync(files, name) == files \cup { name }
deleteEverything(files) == {}

\* Whether load set code and coredump (lines 625-629), and no call yet.
\* `found` is what the call running or last run found in the filesystem when
\* it was entered.
InitTexify ==
    /\ AtRest
    /\ \E loaded \in BOOLEAN :
          run = [step |-> "idle", files |-> {}, loaded |-> loaded,
                 calls |-> 0, outcome |-> "none", found |-> {}]

\* texify has ended by throwing, with the filesystem as given.
Threw(files) == [run EXCEPT !.step = "idle", !.outcome = "threw", !.files = files]

\* texify is called and runs to its first await (lines 630-684).  JSON.parse
\* of data-tex-packages may throw; input.tex is written at line 672; in a
\* worker whose load failed, coredump.slice throws at line 678.
TexifyBegin(parses) ==
    /\ run.step = "idle" /\ run.calls < MaxCalls
    /\ LET called == [run EXCEPT !.calls = @ + 1, !.found = run.files]
           written == writeFileSync(run.files, "input.tex") IN
       run' = IF ~parses THEN [called EXCEPT !.outcome = "threw"]
              ELSE IF ~run.loaded
                   THEN [called EXCEPT !.outcome = "threw", !.files = written]
                   ELSE [called EXCEPT !.step = "instantiate", !.outcome = "none",
                                       !.files = written]
    /\ UNCHANGED pipeline

\* WebAssembly.instantiate settles (line 684).
Instantiated(ok) ==
    /\ run.step = "instantiate"
    /\ run' = IF ok THEN [run EXCEPT !.step = "execute"] ELSE Threw(run.files)
    /\ UNCHANGED pipeline

\* library.executeAsync settles (line 687) after the engine wrote some
\* files, and lines 690-704 run: input.log is read, then input.dvi; only
\* the two exits of lines 697-704 clear the filesystem.
Executed(wrote, ok) ==
    /\ run.step = "execute"
    /\ LET files == run.files \cup wrote IN
       run' = IF ~ok \/ "input.log" \notin files THEN Threw(files)
              ELSE IF "input.dvi" \notin files THEN Threw(deleteEverything(files))
              ELSE [run EXCEPT !.step = "dvi2html", !.files = deleteEverything(files)]
    /\ UNCHANGED pipeline

\* dvi2html settles (line 720) and texify returns the markup, or throws.
Converted(ok) ==
    /\ run.step = "dvi2html"
    /\ run' = [run EXCEPT !.step = "idle",
                          !.outcome = IF ok THEN "returned" ELSE "threw"]
    /\ UNCHANGED pipeline

NextTexify ==
    \/ \E parses \in BOOLEAN : TexifyBegin(parses)
    \/ \E ok \in BOOLEAN : Instantiated(ok)
    \/ \E wrote \in SUBSET EngineFiles, ok \in BOOLEAN : Executed(wrote, ok)
    \/ \E ok \in BOOLEAN : Converted(ok)

SpecTexify == InitTexify /\ [][NextTexify]_vars

\* C20 (as claimed): whenever a texify call has ended, by returning markup
\* or by throwing at any step, the engine's virtual filesystem is empty.
C20_Claim ==
    run.step = "idle" /\ run.calls > 0 => run.files = {}

\* ========================================================= input assembly
\* findNotSupportedChars and the \newunicodechar declarations texify puts
\* in the preamble (lines 634 and 656-661), on their own.  A text is the
\* sequence of its code points, as `for (let char of str)` walks it.
MaxTextLen == 3     \* characters of a raw text

TextCodes == { 65, 256, 20013 }
RawTexts == UNION { [1..n -> TextCodes] : n \in 0..MaxTextLen }

\* Lines 298-307: every character above 255, once for each time it occurs.
findNotSupportedChars(str) == SelectSeq(str, LAMBDA code : code > Latin1Max)

\* Lines 657-661: the reduce adds one declaration for each entry of
\* unsupportChars, naming the character and its marker.
Declarations(chars) ==
    [i \in 1..Len(chars) |-> [char |-> chars[i], marker |-> Marker(chars[i])]]

InitAssemble ==
    /\ AtRest
    /\ \E input \in RawTexts :
          run = [stage |-> "input", input |-> input, unsupportChars |-> <<>>,
                 declarations |-> <<>>]

\* Line 634.
FindChars ==
    /\ run.stage = "input"
    /\ run' = [run EXCEPT !.stage = "found",
                          !.unsupportChars = findNotSupportedChars(run.input)]
    /\ UNCHANGED pipeline

\* Lines 648-661: the head of the document is put together.
AssembleHead ==
    /\ run.stage = "found"
    /\ run' = [run EXCEPT !.stage = "assembled",
                          !.declarations = Declarations(run.unsupportChars)]
    /\ UNCHANGED pipeline

NextAssemble == FindChars \/ AssembleHead

SpecAssemble == InitAssemble /\ [][NextAssemble]_vars

\* C21 (as claimed): the assembled input holds exactly one \newunicodechar
\* declaration for each distinct character above 255 of the raw text,
\* however often the character occurs, and none for any other character.
C21_Claim ==
    run.stage = "assembled" =>
        \A code \in TextCodes :
            Cardinality({ i \in 1..Len(run.declarations) :
                            run.declarations[i].char = code })
                = IF code > Latin1Max /\ code \in Range(run.input) THEN 1 ELSE 0

\* The batch is in the loop of lines 174-176.
InEnginePhase(b) == pc[b] \in {"procGet", "texify", "setItem"}

\* C22: processQueue holds, in the order they pushed, exactly the batches
\* that pushed their promise and have not shifted and resolved; a batch in
\* the loop of lines 174-176 is at its head; so the shift of a finishing
\* batch drops that batch's own entry.
C22_QueueHoldsUnfinished ==
    /\ IsPrefix(finished, joined)
    /\ processQueue = SubSeq(joined, Len(finished) + 1, Len(joined))
    /\ \A i, j \in 1..Len(processQueue) : i # j => processQueue[i] # processQueue[j]
    /\ \A b \in Batches :
          /\ InEnginePhase(b) => processQueue # <<>> /\ Head(processQueue) = b
          /\ b \in Range(processQueue) => ~resolved[b]
          /\ b \in Range(finished) => resolved[b] /\ pc[b] = "done"

\* One batch has shifted and resolved, the next is at the head with an
\* engine call in flight and a third has pushed behind it.
C22_Witness ==
    /\ Len(finished) = 1
    /\ Len(processQueue) = 2
    /\ pc[processQueue[1]] = "texify" /\ pc[processQueue[2]] = "awaitPrev"

\* The elements whose setItem stored an entry under hash h.
Writers(h) ==
    { e \in Elts : sourceHash[e] = h /\ HasSettled(e, "setItem-settled", "stored") }

\* C23: an entry of the store, once there, is never replaced or removed by
\* the pipeline: every step leaves it as it is; at most one setItem ever
\* stores under a hash, and none under a hash that had an entry when the
\* page loaded; and every element resolved from the store carries the entry
\* its hash has had since it was first written.
C23_WriteOnce ==
    [][\A h \in Hashes :
          /\ db[h] # NoEntry => db'[h] = db[h]
          /\ Cardinality(Writers(h)') <= 1
          /\ db'[h] # NoEntry /\ db'[h].by = 0 => Writers(h)' = {}
          /\ \A e \in Elts :
                sourceHash'[e] = h /\ Has(e, "replaced")' => dom'[e] = Svg(db'[h])
      ]_vars

\* Two elements of different batches with one hash both missed at
\* discovery; the first was rendered and stored, and the second was
\* resolved at its turn from that entry instead of writing its own.
C23_Witness ==
    \E e1, e2 \in Elts :
        /\ e1 # e2 /\ sourceHash[e1] = sourceHash[e2]
        /\ Writers(sourceHash[e1]) = {e1}
        /\ Has(e2, "placeholder") /\ Has(e2, "replaced")
        /\ BatchOf(e1) # BatchOf(e2)
        /\ dom[e2] = Svg(db[sourceHash[e1]]) /\ db[sourceHash[e1]].by = e1

\* texify has been called for an element of batch b and has settled.
HasCalled(b) == \E e \in Range(texQueue[b]) : Has(e, "texify-settled")

\* C24 (as claimed): batches reach the engine in the order
\* processTikzScripts was invoked for them (batches are numbered in that
\* order): no batch has an engine call in flight when a batch invoked after
\* it has already had one.
C24_Claim ==
    \A a, b \in Batches : a < b /\ HasCalled(b) => pc[a] # "texify"

\* C24 (amended): batches reach the engine in the order they pushed their
\* promise onto processQueue, which is the order their lookups were over in
\* and not the order they were invoked in: when texify is called for an
\* element of a batch, every batch that pushed before it is done, with
\* process over for each element of its texQueue.
C24_EngineInJoinOrder ==
    \A i, j \in 1..Len(joined) :
        i < j /\ (\E e \in Range(texQueue[joined[j]]) : Has(e, "texify")) =>
            /\ ~InEnginePhase(joined[i]) /\ pc[joined[i]] = "done"
            /\ \A e \in Range(texQueue[joined[i]]) : Over(e) /\ Final(e)

\* A batch of two invoked first and a batch of one invoked second; the
\* second pushed first and had its engine call, and the first now has its
\* own call in flight.
C24_Witness ==
    /\ Len(joined) = 2 /\ joined[1] > joined[2]
    /\ Len(scripts[joined[2]]) = 2
    /\ HasCalled(joined[1]) /\ pc[joined[1]] = "done"
    /\ pc[joined[2]] = "texify"

\* ===================================================== mutation callback
\* The MutationObserver callback of lines 213-230 and the one batch it
\* hands to processTikzScripts, on their own: a <div> holding the script
\* element s1, and a script element s2 beside it.
MaxRecords == 2     \* added nodes reported to one callback

ScriptNodes == { "s1", "s2" }
AddedNodes == ScriptNodes \cup { "div" }

\* node.getElementsByTagName('script') filtered for text/tikz, when the
\* callback runs: the div holds s1, a script element holds none.
TikzScriptsIn(node) == IF node = "div" THEN <<"s1">> ELSE <<>>

\* Lines 215-226 on the added nodes of all records, in order.
RECURSIVE Collect(_)
Collect(nodes) ==
    IF nodes = <<>> THEN <<>>
    ELSE (IF Head(nodes) \in ScriptNodes THEN <<Head(nodes)>>
          ELSE TikzScriptsIn(Head(nodes))) \o Collect(Tail(nodes))

\* What stands in the page where a script element was inserted.
InPage(kind, id) == [kind |-> kind, id |-> id]

\* node.replaceWith(new) and loader.outerHTML = ...: nothing happens
\* unless the node is in the page.
ReplaceIn(page, e, old, new) == IF page[e] = old THEN [page EXCEPT ![e] = new] ELSE page

InitObserver ==
    /\ AtRest
    /\ \E added \in UNION { [1..n -> AddedNodes] : n \in 0..MaxRecords },
          stored \in SUBSET ScriptNodes, nocache \in SUBSET ScriptNodes :
          run = [stage |-> "observed",
                 added |-> added,
                 newTikzScripts |-> <<>>,
                 texQueue |-> <<>>,
                 i |-> 1,
                 page |-> [e \in ScriptNodes |-> InPage("script", 0)],
                 loader |-> [e \in ScriptNodes |-> 0],
                 loaders |-> [e \in ScriptNodes |-> 0],
                 stored |-> stored,
                 nocache |-> nocache]

\* The callback runs (lines 213-229) and processTikzScripts is entered.
Callback ==
    /\ run.stage = "observed"
    /\ run' = [run EXCEPT !.stage = "discover", !.newTikzScripts = Collect(run.added)]
    /\ UNCHANGED pipeline

\* Lines 161-163 for the i-th entry of scripts: loadCachedOrSetupLoader.
\* A hit replaces the element; a miss queues it and replaces it with a new
\* loader, which elt.loader refers to from then on.
LoadEntry ==
    /\ run.stage = "discover" /\ run.i <= Len(run.newTikzScripts)
    /\ LET e == run.newTikzScripts[run.i]
           n == run.loaders[e] + 1 IN
       run' = IF e \notin run.nocache /\ e \in run.stored
              THEN [run EXCEPT !.i = @ + 1,
                               !.page = ReplaceIn(@, e, InPage("script", 0), InPage("svg", 0))]
              ELSE [run EXCEPT !.i = @ + 1,
                               !.texQueue = Append(@, e),
                               !.loaders[e] = n,
                               !.loader[e] = n,
                               !.page = ReplaceIn(@, e, InPage("script", 0), InPage("loader", n))]
    /\ UNCHANGED pipeline

\* Lines 166-172: the lookups are over.
EndDiscovery ==
    /\ run.stage = "discover" /\ run.i > Len(run.newTikzScripts)
    /\ run' = [run EXCEPT !.stage = IF run.texQueue = <<>> THEN "done" ELSE "process",
                          !.i = 1]
    /\ UNCHANGED pipeline

\* Lines 174-176 for the i-th entry of texQueue: process.  The result goes
\* where elt.loader is: the re-check's entry, the rendered markup (stored
\* unless caching is off) or, when texify throws, the icon.
ProcessEntry(ok) ==
    /\ run.stage = "process" /\ run.i <= Len(run.texQueue)
    /\ LET e == run.texQueue[run.i]
           loader == InPage("loader", run.loader[e])
           hit == e \notin run.nocache /\ e \in run.stored IN
       run' = [run EXCEPT
                  !.i = @ + 1,
                  !.page = ReplaceIn(@, e, loader,
                                     IF hit \/ ok THEN InPage("svg", 0) ELSE InPage("broken", 0)),
                  !.stored = IF ~hit /\ ok /\ e \notin run.nocache THEN @ \cup {e} ELSE @]
    /\ UNCHANGED pipeline

\* Lines 178-180.
EndProcess ==
    /\ run.stage = "process" /\ run.i > Len(run.texQueue)
    /\ run' = [run EXCEPT !.stage = "done"]
    /\ UNCHANGED pipeline

NextObserver ==
    \/ Callback
    \/ LoadEntry
    \/ EndDiscovery
    \/ \E ok \in BOOLEAN : ProcessEntry(ok)
    \/ EndProcess

SpecObserver == InitObserver /\ [][NextObserver]_vars

NoRepeats(s) == \A i, j \in 1..Len(s) : i # j => s[i] # s[j]

\* C25 (as claimed): the batch one callback builds holds each script
\* element at most once, also when the element and an ancestor of it are
\* both among the added nodes; no element gets two placeholders or is
\* queued twice; and when the batch is done no placeholder is left in the
\* page.
C25_Claim ==
    /\ NoRepeats(run.newTikzScripts)
    /\ NoRepeats(run.texQueue)
    /\ \A e \in ScriptNodes : run.loaders[e] <= 1
    /\ run.stage = "done" => \A e \in ScriptNodes : run.page[e].kind # "loader"

====
